---- MODULE Spec2Model ----
(***************************************************************************)
(* Model of MyraWSClient (myra/wsClient.js): the WebSocket connection      *)
(* manager and the request-correlation table of the Myra bridge.           *)
(*                                                                         *)
(* One action per handler of the class: connect(), disconnect(), send(),   *)
(* the socket's open / message / close handlers, the per-query deadline    *)
(* timer, the ws.send callback, the heartbeat interval and the reconnect   *)
(* timer.  Node runs each handler to completion, so each is one step.      *)
(*                                                                         *)
(* Abstractions (all stated where they are made):                          *)
(*  - strings are sequences over the alphabet {1, 2};                      *)
(*  - a token value as found in a payload is a raw JavaScript value:       *)
(*    absent, a string or a number (String() maps both to a string);       *)
(*  - a frame is the record of the fields handleMessage reads;             *)
(*  - a response handed to a caller is the frame's eventType and           *)
(*    data.conversationId (after the merge);                               *)
(*  - pending.lastMessage (line 307) is written and never read: the        *)
(*    entries of the table do not carry it;                                *)
(*  - sockets no longer referenced by this.ws are kept as counts per       *)
(*    readyState: their handlers act on the client, never on the socket.   *)
(*                                                                         *)
(* Next to it, the session store (session/MemoryStore.js), the carousel    *)
(* (logic/carousel.js), the booking flow and the orchestrator's            *)
(* processMessage: a call loads the session object of the user, its        *)
(* handler changes it, in place or as a copy, and the call writes it       *)
(* back.  Strings the handlers search are sequences of characters.         *)
(***************************************************************************)
EXTENDS Integers, Sequences, FiniteSets, TLC

VARIABLES
  ws,                 \* this.ws: "null", or the readyState of the socket it references
  orphans,            \* live sockets this.ws no longer references, per readyState
  isConnected,        \* this.isConnected
  reconnectAttempts,  \* this.reconnectAttempts
  heartbeatInterval,  \* this.heartbeatInterval is non-null
  leakedIntervals,    \* running setInterval timers whose handle was overwritten
  reconnectTimers,    \* setTimeout callbacks scheduled by handleReconnect, not yet run
  pendingRequests,    \* this.pendingRequests: a Map, kept in insertion order
  queries,            \* one record per send() call: its promise, timer and callback
  nq,                 \* number of send() calls made
  emitted,            \* what the latest handler emitted or put on the socket
  now,                \* Date.now() as the session store reads it
  ttl,                \* MemoryStore: this.ttl
  store,              \* MemoryStore: this.store, the entry of every key
  heap,               \* the session objects the orchestrator has created
  calls,              \* the processMessage calls: where each is, what it holds
  prompted            \* the booking prompt last sent to the user

clientVars == <<ws, orphans, isConnected, reconnectAttempts, heartbeatInterval,
                leakedIntervals, reconnectTimers, pendingRequests, queries, nq,
                emitted>>

appVars == <<now, ttl, store, heap, calls, prompted>>

vars == <<clientVars, appVars>>

connVars == <<ws, orphans, isConnected, reconnectAttempts, heartbeatInterval,
              leakedIntervals, reconnectTimers>>

-----------------------------------------------------------------------------
(* Bounds of the model *)

MaxQueries == 1
MaxConcurrent == 2
MaxOrphans == 1
MaxLeaked == 1
MaxReconnectTimers == 1

(* Program constants *)

maxReconnectAttempts == 5

-----------------------------------------------------------------------------
(* Strings and raw token values *)

S1 == <<1>>
S2 == <<2>>
S12 == <<1, 2>>

NoRaw == [k |-> "none", v |-> <<>>]
StrRaw(s) == [k |-> "str", v |-> s]
NumRaw(s) == [k |-> "num", v |-> s]

\* JavaScript truthiness of a raw value: absent and "" are falsy.
Truthy(raw) == raw.k # "none" /\ raw.v # <<>>

\* String(raw): a number becomes its decimal digits, a string stays.
ToStr(raw) == raw.v

\* a.includes(b): b occurs in a as a contiguous substring.
Includes(a, b) ==
  \E i \in 0..(Len(a) - Len(b)) : SubSeq(a, i + 1, i + Len(b)) = b

-----------------------------------------------------------------------------
(* The Map this.pendingRequests, in insertion order *)

NoMsg == [eventType |-> "none", conversationId |-> "null"]

Has(tbl, key) == \E i \in 1..Len(tbl) : tbl[i].tempId = key

IndexOf(tbl, key) == CHOOSE i \in 1..Len(tbl) : tbl[i].tempId = key

Get(tbl, key) == tbl[IndexOf(tbl, key)]

\* A delete that also drops every key containing key or contained in it:
\* what C4 must tell from Map.prototype.delete.
MapDeleteRelated(tbl, key) ==
  SelectSeq(tbl, LAMBDA e : ~(Includes(e.tempId, key) \/ Includes(key, e.tempId)))

MapDelete(tbl, key) == SelectSeq(tbl, LAMBDA e : e.tempId # key)

\* A set that has not been made yet when the payload goes out: what C18 must
\* tell from the registration of line 407.
MapSetDeferred(tbl, key, entry) == tbl

\* Map.prototype.set: an existing key keeps its place, a new one goes last.
MapSet(tbl, key, entry) ==
  IF Has(tbl, key) THEN [tbl EXCEPT ![IndexOf(tbl, key)] = entry]
  ELSE Append(tbl, entry)

\* Map.prototype.delete with the key as given: a number never equals a string key.
MapDeleteRaw(tbl, raw) ==
  IF raw.k = "str" THEN MapDelete(tbl, raw.v) ELSE tbl

HasRaw(tbl, raw) == raw.k = "str" /\ Has(tbl, raw.v)

-----------------------------------------------------------------------------
(* Promises: the resolve / reject handles captured by send() *)

NoQuery ==
  [st |-> "new", tok |-> NoRaw, timer |-> FALSE, cb |-> FALSE,
   res |-> NoMsg, err |-> "none"]

\* resolve(response): settles a pending promise, a no-op on a settled one.
Resolve(qs, q, response) ==
  IF qs[q].st = "pending"
  THEN [qs EXCEPT ![q].st = "resolved", ![q].res = response]
  ELSE qs

\* reject(error): settles a pending promise, a no-op on a settled one.
\* A reject that is put off and never made: what C11 must tell from the
\* reject(...) calls of send.
RejectDropped(qs, q, error) == qs

Reject(qs, q, error) ==
  IF qs[q].st = "pending"
  THEN [qs EXCEPT ![q].st = "rejected", ![q].err = error]
  ELSE qs

-----------------------------------------------------------------------------
(* Inbound frames: the fields of the parsed JSON that handleMessage reads *)

EventTypes == {"NEW_CHAT_CREATED", "NEW_MESSAGE", "ASSISTANT_REPLY"}

\* An a || b that prefers its second operand: what C26 must tell from the
\* order of the operands in lines 237-240.
OrElseLater(a, b) == IF Truthy(b) THEN b ELSE a

\* message.uiMetadata?.tempId || message.tempId ||
\* message.data?.uiMetadata?.tempId || message.headers?.['request-id']
\* (a || b is a when a is truthy, else b), then String() of a truthy value.
OrElse(a, b) == IF Truthy(a) THEN a ELSE b

ExtractTempId(f) ==
  LET rawTempId == OrElse(f.tempIds[1],
                     OrElse(f.tempIds[2], OrElse(f.tempIds[3], f.tempIds[4])))
  IN  IF Truthy(rawTempId) THEN StrRaw(ToStr(rawTempId)) ELSE NoRaw

\* The part of a message object that callers and the merge read.
Msg(f) == [eventType |-> f.eventType, conversationId |-> f.conversationId]

HasLoaderText(f) == "LOADER_TEXT" \in f.content

HasActualContent(f) == f.content \cap {"TEXT", "CARD", "LIST"} # {}

HasLeadingQuestion(f) == f.leadingQuestion

\* A decision that takes a frame flagged isCompleted for final whatever it
\* holds: what C25 must tell from the conditions of lines 313-334, which do
\* not read the flag.
LoaderOnlyUnlessCompleted(f) ==
  HasLoaderText(f) /\ ~HasActualContent(f) /\ ~HasLeadingQuestion(f)
    /\ ~f.isCompleted

\* Lines 313, 323, 334: the three-way decision of the NEW_MESSAGE branch.
LoaderOnly(f) ==
  HasLoaderText(f) /\ ~HasActualContent(f) /\ ~HasLeadingQuestion(f)

\* A merge condition that lets the stored conversationId replace the one the
\* frame carries: what C28 must tell from the first operand of line 288.
FillsAlways(m, pending) ==
  /\ pending.chatCreated # NoMsg
  /\ pending.chatCreated.conversationId # "null"

\* Lines 287-294: conversationId taken from the stored NEW_CHAT_CREATED
\* when the NEW_MESSAGE frame has none.
FillsConversationId(m, pending) ==
  /\ pending.chatCreated # NoMsg
  /\ m.conversationId = "null"
  /\ pending.chatCreated.conversationId # "null"

\* A merge that never copies the conversationId: what C9 must tell from the
\* merge of lines 285-294.
MergeNever(m, pending) == m

MergeChatCreated(m, pending) ==
  IF FillsConversationId(m, pending)
  THEN [m EXCEPT !.conversationId = pending.chatCreated.conversationId]
  ELSE m

-----------------------------------------------------------------------------
(* resolvePending(tempId, response): the table and the promises afterwards *)

\* Lines 522-534: the first entry, in insertion order, whose key contains
\* the token or is contained in it; 0 when there is none.
PartialMatch(tbl, s) ==
  LET hits == {i \in 1..Len(tbl) :
                 Includes(tbl[i].tempId, s) \/ Includes(s, tbl[i].tempId)}
  IN  IF hits = {} THEN 0
      ELSE CHOOSE i \in hits : \A j \in hits : i <= j

\* p, q: the table and the promises afterwards; who: the query whose resolve
\* handle was called (0: none); how: the log line.
ResolveEntry(tbl, qs, key, response, how) ==
  [p |-> MapDelete(tbl, key),
   q |-> Resolve(qs, Get(tbl, key).q, response),
   who |-> Get(tbl, key).q,
   how |-> how]

ResolvePending(tbl, qs, tempId, response) ==
  IF ~Truthy(tempId) THEN [p |-> tbl, q |-> qs, who |-> 0, how |-> "no_tempId"]
  ELSE IF HasRaw(tbl, tempId)
    THEN ResolveEntry(tbl, qs, tempId.v, response, "exact")
  ELSE IF Has(tbl, ToStr(tempId))
    THEN ResolveEntry(tbl, qs, ToStr(tempId), response, "string")
  ELSE IF PartialMatch(tbl, ToStr(tempId)) # 0
    THEN ResolveEntry(tbl, qs, tbl[PartialMatch(tbl, ToStr(tempId))].tempId,
                      response, "partial")
  ELSE [p |-> tbl, q |-> qs, who |-> 0,
        how |-> IF Len(tbl) > 0 THEN "unknown" ELSE "none_pending"]

-----------------------------------------------------------------------------
(* handleMessage(data): the table, the promises and the path taken *)

\* Lines 271, 285, 360: tempId && this.pendingRequests.has(tempId)
Matches(tbl, tempId) == Truthy(tempId) /\ HasRaw(tbl, tempId)

\* A NEW_CHAT_CREATED branch that resolves on a frame with content or a
\* leadingQuestion: what C29 must tell from the branch of lines 267-279.
OnChatCreatedResolves(tbl, qs, f) ==
  LET tempId == ExtractTempId(f) IN
  IF Matches(tbl, tempId)
  THEN IF HasActualContent(f) \/ HasLeadingQuestion(f)
       THEN LET r == ResolvePending(tbl, qs, tempId, Msg(f))
            IN  [p |-> r.p, q |-> r.q, who |-> r.who, path |-> "cc_resolved"]
       ELSE [p |-> [tbl EXCEPT ![IndexOf(tbl, tempId.v)].chatCreated = Msg(f)],
             q |-> qs, who |-> 0, path |-> "cc_stored"]
  ELSE [p |-> tbl, q |-> qs, who |-> 0, path |-> "cc_ignored"]

\* p, q: the table and the promises afterwards; who: the query whose resolve
\* handle was called (0: none); path: the branch taken.
OnChatCreated(tbl, qs, f) ==
  LET tempId == ExtractTempId(f) IN
  IF Matches(tbl, tempId)
  THEN [p |-> [tbl EXCEPT ![IndexOf(tbl, tempId.v)].chatCreated = Msg(f)],
        q |-> qs, who |-> 0, path |-> "cc_stored"]
  ELSE [p |-> tbl, q |-> qs, who |-> 0, path |-> "cc_ignored"]

OnNewMessage(tbl, qs, f) ==
  LET tempId == ExtractTempId(f) IN
  IF Matches(tbl, tempId)
  THEN LET pending == Get(tbl, tempId.v)
           message == MergeChatCreated(Msg(f), pending)
       IN  IF LoaderOnly(f)
           THEN [p |-> tbl, q |-> qs, who |-> 0, path |-> "nm_loader"]
           ELSE LET r == ResolvePending(tbl, qs, tempId, message)
                IN  [p |-> r.p, q |-> r.q, who |-> r.who,
                     path |-> IF HasActualContent(f) \/ HasLeadingQuestion(f)
                              THEN "nm_content" ELSE "nm_edge"]
  ELSE [p |-> tbl, q |-> qs, who |-> 0, path |-> "nm_nopending"]

\* A default branch that treats the frame as the NEW_MESSAGE branch does,
\* merge and decision included: what C30 must tell from lines 353-366.
OnOtherEventChecked(tbl, qs, f) == OnNewMessage(tbl, qs, f)

OnOtherEvent(tbl, qs, f) ==
  LET tempId == ExtractTempId(f) IN
  IF Matches(tbl, tempId)
  THEN LET r == ResolvePending(tbl, qs, tempId, Msg(f))
       IN  [p |-> r.p, q |-> r.q, who |-> r.who, path |-> "other_resolved"]
  ELSE [p |-> tbl, q |-> qs, who |-> 0, path |-> "other_ignored"]

\* A handler that gives a frame without token to the only pending entry:
\* what C27 must tell from the conditions of lines 271, 285 and 360.
handleMessageSpeculative(tbl, qs, f) ==
  IF ~Truthy(ExtractTempId(f)) /\ Len(tbl) = 1
  THEN [p |-> <<>>, q |-> Resolve(qs, tbl[1].q, Msg(f)), who |-> tbl[1].q,
        path |-> "speculative"]
  ELSE CASE f.eventType = "NEW_CHAT_CREATED" -> OnChatCreated(tbl, qs, f)
         [] f.eventType = "NEW_MESSAGE"      -> OnNewMessage(tbl, qs, f)
         [] OTHER                            -> OnOtherEvent(tbl, qs, f)

handleMessage(tbl, qs, f) ==
  CASE f.eventType = "NEW_CHAT_CREATED" -> OnChatCreated(tbl, qs, f)
    [] f.eventType = "NEW_MESSAGE"      -> OnNewMessage(tbl, qs, f)
    [] OTHER                            -> OnOtherEvent(tbl, qs, f)

-----------------------------------------------------------------------------
(* Sockets *)

LiveStates == {"CONNECTING", "OPEN", "CLOSING"}

NoOrphans == [s \in LiveStates |-> 0]

OrphanCount == orphans["CONNECTING"] + orphans["OPEN"] + orphans["CLOSING"]

\* this.ws is replaced or dropped: a socket that can still emit events goes on
\* living without a reference, in state s.
Orphaned(s) ==
  IF s \in LiveStates THEN [orphans EXCEPT ![s] = @ + 1] ELSE orphans

\* emitted is one of: "none"; "connected" and "maxReconnectReached", the events
\* of the EventEmitter; "payload" and "probe", a query and a heartbeat handed to
\* ws.send; "crash", an exception nobody catches.
Emits(e) == emitted' = e

\* An exception nobody catches ends the process: no handler runs after it.
Running == emitted # "crash"

-----------------------------------------------------------------------------
(* startHeartbeat / stopHeartbeat / handleReconnect *)

\* startHeartbeat: this.heartbeatInterval = setInterval(...).  A handle already
\* there is overwritten, and its timer keeps running.
startHeartbeat ==
  /\ heartbeatInterval => leakedIntervals < MaxLeaked
  /\ heartbeatInterval' = TRUE
  /\ leakedIntervals' = IF heartbeatInterval THEN leakedIntervals + 1
                        ELSE leakedIntervals

\* stopHeartbeat: clears the timer whose handle this.heartbeatInterval holds.
stopHeartbeat ==
  /\ heartbeatInterval' = FALSE
  /\ UNCHANGED leakedIntervals

\* this.reconnectDelay, in milliseconds.
reconnectDelay == 3000

\* Line 613: the delay of the attempt counted as number attempts.
ReconnectDelayOf(attempts) == reconnectDelay * attempts

\* A handleReconnect that never gives up: what C20 must tell from the check
\* of line 606.
handleReconnectForever ==
  /\ reconnectTimers < MaxReconnectTimers
  /\ reconnectAttempts' = reconnectAttempts + 1
  /\ reconnectTimers' = reconnectTimers + 1
  /\ Emits("none")

\* handleReconnect: gives up at maxReconnectAttempts, else counts the attempt
\* and schedules connect().
handleReconnect ==
  IF reconnectAttempts >= maxReconnectAttempts
  THEN /\ Emits("maxReconnectReached")
       /\ UNCHANGED <<reconnectAttempts, reconnectTimers>>
  ELSE /\ reconnectTimers < MaxReconnectTimers
       /\ reconnectAttempts' = reconnectAttempts + 1
       /\ reconnectTimers' = reconnectTimers + 1
       /\ Emits("none")

-----------------------------------------------------------------------------
(* connect() and the handlers it registers on the socket *)

\* A connect that opens a new socket whether or not the client is connected:
\* what C14 must tell from the check of lines 190-193.
connectAgain ==
  /\ ws \in LiveStates => OrphanCount < MaxOrphans
  /\ orphans' = Orphaned(ws)
  /\ ws' = "CONNECTING"
  /\ Emits("none")

\* Lines 188-197: nothing when connected, else a new socket replaces this.ws.
connect ==
  IF isConnected
  THEN /\ Emits("none")
       /\ UNCHANGED <<ws, orphans>>
  ELSE /\ ws \in LiveStates => OrphanCount < MaxOrphans
       /\ orphans' = Orphaned(ws)
       /\ ws' = "CONNECTING"
       /\ Emits("none")

Connect ==
  /\ Running
  /\ UNCHANGED appVars
  /\ connect
  /\ UNCHANGED <<isConnected, reconnectAttempts, heartbeatInterval,
                 leakedIntervals, reconnectTimers, pendingRequests, queries, nq>>

\* Lines 617-621: the timer scheduled by handleReconnect runs connect().
ReconnectTimer ==
  /\ Running
  /\ UNCHANGED appVars
  /\ reconnectTimers > 0
  /\ reconnectTimers' = reconnectTimers - 1
  /\ connect
  /\ UNCHANGED <<isConnected, reconnectAttempts, heartbeatInterval,
                 leakedIntervals, pendingRequests, queries, nq>>

\* An 'open' handler that leaves the attempt counter as it is: what C21 must
\* tell from the reset of line 202.
OnOpenKeepsCount ==
  /\ isConnected' = TRUE
  /\ startHeartbeat
  /\ Emits("connected")
  /\ UNCHANGED <<reconnectAttempts, reconnectTimers, pendingRequests, queries, nq>>

\* Lines 199-206: the 'open' handler.
OnOpen ==
  /\ isConnected' = TRUE
  /\ reconnectAttempts' = 0
  /\ startHeartbeat
  /\ Emits("connected")
  /\ UNCHANGED <<reconnectTimers, pendingRequests, queries, nq>>

\* A 'close' handler that also empties the table of the queries it finds in
\* flight: what C22 must tell from the handler of lines 212-217.
OnCloseDrops ==
  /\ isConnected' = FALSE
  /\ stopHeartbeat
  /\ handleReconnect
  /\ pendingRequests' = <<>>
  /\ UNCHANGED <<queries, nq>>

\* Lines 212-217: the 'close' handler.
OnClose ==
  /\ isConnected' = FALSE
  /\ stopHeartbeat
  /\ handleReconnect
  /\ UNCHANGED <<pendingRequests, queries, nq>>

\* The socket this.ws references opens.
WsOpen ==
  /\ Running
  /\ UNCHANGED appVars
  /\ ws = "CONNECTING"
  /\ ws' = "OPEN"
  /\ UNCHANGED orphans
  /\ OnOpen

\* The peer or the network starts closing the referenced socket: readyState
\* leaves OPEN before the 'close' event is emitted.
WsClosing ==
  /\ Running
  /\ UNCHANGED appVars
  /\ ws = "OPEN"
  /\ ws' = "CLOSING"
  /\ Emits("none")
  /\ UNCHANGED <<orphans, isConnected, reconnectAttempts, heartbeatInterval,
                 leakedIntervals, reconnectTimers, pendingRequests, queries, nq>>

\* The referenced socket is closed (a failed handshake, a drop, the end of a
\* closing handshake) and emits 'close'.
WsClose ==
  /\ Running
  /\ UNCHANGED appVars
  /\ ws \in LiveStates
  /\ ws' = "CLOSED"
  /\ UNCHANGED orphans
  /\ OnClose

\* A socket that this.ws no longer references opens: its handler still runs.
OrphanOpen ==
  /\ Running
  /\ UNCHANGED appVars
  /\ orphans["CONNECTING"] > 0
  /\ orphans' = [orphans EXCEPT !["CONNECTING"] = @ - 1, !["OPEN"] = @ + 1]
  /\ UNCHANGED ws
  /\ OnOpen

\* A socket that this.ws no longer references closes: its handler still runs.
OrphanClose ==
  /\ Running
  /\ UNCHANGED appVars
  /\ \E s \in LiveStates :
       /\ orphans[s] > 0
       /\ orphans' = [orphans EXCEPT ![s] = @ - 1]
  /\ UNCHANGED ws
  /\ OnClose

\* Lines 627-635: disconnect().
Disconnect ==
  /\ Running
  /\ UNCHANGED appVars
  /\ stopHeartbeat
  /\ ws \in LiveStates => OrphanCount < MaxOrphans
  /\ orphans' = Orphaned(IF ws \in LiveStates THEN "CLOSING" ELSE ws)
  /\ ws' = "null"
  /\ isConnected' = FALSE
  /\ pendingRequests' = <<>>
  /\ Emits("none")
  /\ UNCHANGED <<reconnectAttempts, reconnectTimers, queries, nq>>

\* Lines 135-148: the HEART_BEAT envelope has no uiMetadata, hence no tempId.
buildHeartbeatPayload == [eventType |-> "HEART_BEAT", tempId |-> NoRaw]

\* A heartbeat that counts a probe it could not transmit as the failure of
\* the queries in the table: what C23 must tell from the callback of lines
\* 583-589.
HeartbeatFailsQueries ==
  /\ Running
  /\ UNCHANGED appVars
  /\ heartbeatInterval \/ leakedIntervals > 0
  /\ \/ /\ ~isConnected
        /\ Emits("none")
        /\ UNCHANGED pendingRequests
     \/ /\ isConnected
        /\ ws = "OPEN"
        /\ Emits("probe")
        /\ UNCHANGED pendingRequests
     \/ /\ isConnected
        /\ ws # "OPEN"
        /\ Emits("none")
        /\ pendingRequests' = <<>>
  /\ UNCHANGED <<connVars, queries, nq>>

\* Lines 583-589: one run of a heartbeat interval callback.  this.ws.send
\* without a callback throws on a missing socket; on a socket that is not
\* open the library either throws or drops the probe.
Heartbeat ==
  /\ Running
  /\ UNCHANGED appVars
  /\ heartbeatInterval \/ leakedIntervals > 0
  /\ \/ /\ ~isConnected
        /\ Emits("none")
     \/ /\ isConnected
        /\ ws = "OPEN"
        /\ Emits("probe")
     \/ /\ isConnected
        /\ ws \in {"CONNECTING", "CLOSING", "CLOSED"}
        /\ emitted' \in {"none", "crash"}
     \/ /\ isConnected
        /\ ws = "null"
        /\ Emits("crash")
  /\ UNCHANGED <<connVars, pendingRequests, queries, nq>>

-----------------------------------------------------------------------------
(* send(payload), its deadline timer and the ws.send callback *)

\* payload.uiMetadata?.tempId as callers may pass it: none, a string, a
\* number; and the strings two concurrent queries are given, one of which
\* occurs inside the other.
PayloadTempIds == {NoRaw, StrRaw(S1), StrRaw(S12), NumRaw(S1)}

ConcurrentTempIds == {StrRaw(S1), StrRaw(S12)}

Issued(tempId) == [NoQuery EXCEPT !.st = "pending", !.tok = tempId]

NewEntry(tempIdStr, q) ==
  [tempId |-> tempIdStr, q |-> q, chatCreated |-> NoMsg]

\* A send that registers the token and arms the deadline before it looks at
\* the connection: what C12 must tell from the order of lines 380-415.
SendRegistersFirst(tempId) ==
  /\ Running
  /\ UNCHANGED appVars
  /\ nq + 1 \in DOMAIN queries
  /\ nq' = nq + 1
  /\ LET q  == nq + 1
         qs == [queries EXCEPT ![q] = Issued(tempId), ![q].timer = Truthy(tempId)]
     IN  /\ pendingRequests' =
              IF Truthy(tempId)
              THEN MapSet(pendingRequests, ToStr(tempId), NewEntry(ToStr(tempId), q))
              ELSE pendingRequests
         /\ IF ~isConnected \/ ws # "OPEN"
            THEN queries' = Reject(qs, q, "not_connected") /\ Emits("none")
            ELSE queries' = [qs EXCEPT ![q].cb = TRUE] /\ Emits("payload")
  /\ UNCHANGED connVars

\* Lines 378-478.  The promise executor: a throw inside it rejects the promise.
Send(tempId) ==
  /\ Running
  /\ UNCHANGED appVars
  /\ nq + 1 \in DOMAIN queries
  /\ nq' = nq + 1
  /\ LET q  == nq + 1
         qs == [queries EXCEPT ![q] = Issued(tempId)]
     IN  IF ~isConnected
         THEN /\ queries' = Reject(qs, q, "not_connected")
              /\ Emits("none")
              /\ UNCHANGED pendingRequests
         ELSE IF ws = "null"
         THEN /\ queries' = Reject(qs, q, "type_error")
              /\ Emits("none")
              /\ UNCHANGED pendingRequests
         ELSE IF ws # "OPEN"
         THEN /\ queries' = Reject(qs, q, "not_ready")
              /\ Emits("none")
              /\ UNCHANGED pendingRequests
         ELSE IF Truthy(tempId)
         THEN /\ pendingRequests' =
                   MapSet(pendingRequests, ToStr(tempId), NewEntry(ToStr(tempId), q))
              /\ queries' = [qs EXCEPT ![q].timer = TRUE, ![q].cb = TRUE]
              /\ Emits("payload")
         ELSE /\ queries' = [qs EXCEPT ![q].cb = TRUE]
              /\ Emits("payload")
              /\ UNCHANGED pendingRequests
  /\ UNCHANGED connVars

\* A deadline that rejects the promise and leaves the entry in the table:
\* what C7 must tell from the timer of lines 426-437.
TimeoutKeepsEntry(q) ==
  /\ Running
  /\ UNCHANGED appVars
  /\ queries[q].timer
  /\ queries' = Reject([queries EXCEPT ![q].timer = FALSE], q, "timeout")
  /\ Emits("none")
  /\ UNCHANGED <<connVars, pendingRequests, nq>>

\* Lines 426-437: the deadline timer of query q runs.
Timeout(q) ==
  /\ Running
  /\ UNCHANGED appVars
  /\ queries[q].timer
  /\ LET tempIdStr == ToStr(queries[q].tok)
         qs == [queries EXCEPT ![q].timer = FALSE]
     IN  IF Has(pendingRequests, tempIdStr)
         THEN /\ pendingRequests' = MapDelete(pendingRequests, tempIdStr)
              /\ queries' = Reject(qs, q, "timeout")
              /\ Emits("none")
         ELSE /\ queries' = qs
              /\ Emits("none")
              /\ UNCHANGED pendingRequests
  /\ UNCHANGED <<connVars, nq>>

\* Lines 458-477: the callback of ws.send for query q runs, with or without
\* an error.
SendCallback(q, error) ==
  /\ Running
  /\ UNCHANGED appVars
  /\ queries[q].cb
  /\ LET tempId == queries[q].tok
         qs == [queries EXCEPT ![q].cb = FALSE]
     IN  IF error
         THEN /\ pendingRequests' = IF Truthy(tempId)
                                    THEN MapDeleteRaw(pendingRequests, tempId)
                                    ELSE pendingRequests
              /\ queries' = Reject(qs, q, "send_error")
              /\ Emits("none")
         ELSE /\ queries' = IF ~Truthy(tempId) THEN Resolve(qs, q, NoMsg) ELSE qs
              /\ Emits("none")
              /\ UNCHANGED pendingRequests
  /\ UNCHANGED <<connVars, nq>>

-----------------------------------------------------------------------------
(* The 'message' handler *)

Frame(ev, tempIds, cid, content, lq, done) ==
  [eventType |-> ev, tempIds |-> tempIds, conversationId |-> cid,
   content |-> content, leadingQuestion |-> lq, isCompleted |-> done]

\* A token at place `at` of the four places ExtractTempId reads.
Placed(r, at) == [i \in 1..4 |-> IF i = at THEN r ELSE NoRaw]

FrameTempIds == {NoRaw, StrRaw(S1), StrRaw(S2), StrRaw(S12), NumRaw(S1)}

\* Payloads by what the NEW_MESSAGE branch tells apart: loading only, actual
\* content (with or without a loading marker), a leading question, nothing.
\* Each is <<the content types, whether data.leadingQuestion is set>>.
Payloads ==
  {<<{"LOADER_TEXT"}, FALSE>>, <<{"TEXT"}, FALSE>>,
   <<{"LOADER_TEXT", "CARD"}, FALSE>>, <<{"LOADER_TEXT"}, TRUE>>,
   <<{}, FALSE>>}

\* The conversation ids a frame may carry: NEW_CHAT_CREATED announces c1 (or
\* none); a later frame carries none or c2, so that a conversationId c1 in a
\* response to NEW_MESSAGE can only come from the merge.
FrameConversationIds(ev) ==
  IF ev = "NEW_CHAT_CREATED" THEN {"null", "c1"} ELSE {"null", "c2"}

FramesOf(tempIds, payloads) ==
  UNION {{Frame(ev, Placed(r, 1), cid, pl[1], pl[2], FALSE) :
            r \in tempIds, pl \in payloads,
            cid \in FrameConversationIds(ev)} : ev \in EventTypes}

\* The frames the server is taken to send: every event type, token, conversation
\* id and payload, with the token in uiMetadata.tempId.
Frames == FramesOf(FrameTempIds, Payloads)

\* The frames sent while several queries are pending: the tokens of the
\* queries and a third one, loading-only, substantive and empty payloads.
ConcurrentFrames ==
  FramesOf({StrRaw(S1), StrRaw(S2), StrRaw(S12)},
           {<<{"LOADER_TEXT"}, FALSE>>, <<{"TEXT"}, FALSE>>, <<{}, FALSE>>})

\* Some socket of the client can still deliver a frame.
Delivering ==
  \/ ws \in {"OPEN", "CLOSING"}
  \/ orphans["OPEN"] > 0
  \/ orphans["CLOSING"] > 0

\* Lines 208-210, 232-371.
Message(f) ==
  /\ Running
  /\ UNCHANGED appVars
  /\ Delivering
  /\ LET r == handleMessage(pendingRequests, queries, f)
     IN  /\ pendingRequests' = r.p
         /\ queries' = r.q
         /\ Emits("none")
  /\ UNCHANGED <<connVars, nq>>

-----------------------------------------------------------------------------
(* The client's behaviours *)

\* resolvePending(tempId, response) called on the client directly.
ResolvePendingCall(tempId, response) ==
  /\ Running
  /\ UNCHANGED appVars
  /\ LET r == ResolvePending(pendingRequests, queries, tempId, response)
     IN  /\ pendingRequests' = r.p
         /\ queries' = r.q
  /\ Emits("none")
  /\ UNCHANGED <<connVars, nq>>

-----------------------------------------------------------------------------
(* MemoryStore (session/MemoryStore.js): a Map of entries with an expiry *)

\* Time is counted in ticks up to MaxTime; the store is constructed with a
\* TTL of 1..MaxTtl ticks (new MemoryStore(ttlMinutes)).
MaxTime == 4
MaxTtl == 2

\* The keys of the store: user ids.
Keys == {"u1", "u2"}

\* null, as get returns it; session objects are numbered from 1.
Null == 0

\* No entry under a key, and the entry set() makes.
NoEntry == [has |-> FALSE, data |-> Null, expiresAt |-> 0]

Entry(data, expiresAt) == [has |-> TRUE, data |-> data, expiresAt |-> expiresAt]

EmptyStore == [k \in Keys |-> NoEntry]

\* A get that returns what is stored however old it is: what C36 must tell
\* from the check of lines 33-36.
MemoryStore_getStale(st, t, key) ==
  [store |-> st, val |-> st[key].data]

\* Lines 25-39.  store: the Map afterwards; val: the value returned.
MemoryStore_get(st, t, key) ==
  IF ~st[key].has THEN [store |-> st, val |-> Null]
  ELSE IF t > st[key].expiresAt
    THEN [store |-> [st EXCEPT ![key] = NoEntry], val |-> Null]
    ELSE [store |-> st, val |-> st[key].data]

\* Lines 46-51.
MemoryStore_set(st, t, tl, key, data) ==
  [st EXCEPT ![key] = Entry(data, t + tl)]

\* Lines 57-59.
MemoryStore_delete(st, key) == [st EXCEPT ![key] = NoEntry]

\* Lines 66-68.
MemoryStore_has(st, t, key) ==
  LET g == MemoryStore_get(st, t, key)
  IN  [store |-> g.store, val |-> g.val # Null]

\* Lines 73-87.
MemoryStore_cleanup(st, t) ==
  [k \in Keys |-> IF st[k].has /\ t > st[k].expiresAt THEN NoEntry ELSE st[k]]

-----------------------------------------------------------------------------
(* Strings of the orchestrator: sequences of characters *)

STR_yes == <<"y", "e", "s">>
STR_no == <<"n", "o">>
STR_confirm == <<"c", "o", "n", "f", "i", "r", "m">>
STR_cancel == <<"c", "a", "n", "c", "e", "l">>
STR_confirm_yes == <<"c", "o", "n", "f", "i", "r", "m", "_", "y", "e", "s">>
STR_confirm_no == <<"c", "o", "n", "f", "i", "r", "m", "_", "n", "o">>
STR_confirm_prompt == <<"c", "o", "n", "f", "i", "r", "m", "_", "p", "r", "o", "m", "p", "t">>
STR_book_confirm == <<"b", "o", "o", "k", "_", "c", "o", "n", "f", "i", "r", "m">>
STR_book_cancel == <<"b", "o", "o", "k", "_", "c", "a", "n", "c", "e", "l">>
STR_carousel_next == <<"c", "a", "r", "o", "u", "s", "e", "l", "_", "n", "e", "x", "t">>
STR_carousel_prev == <<"c", "a", "r", "o", "u", "s", "e", "l", "_", "p", "r", "e", "v">>
STR_select_ == <<"s", "e", "l", "e", "c", "t", "_">>
STR_goa == <<"g", "o", "a">>
STR_dates == <<"1", "5", " ", "j", "a", "n">>
STR_hi == <<"h", "i">>

\* s.startsWith(prefix), and s.replace(prefix, '') of a string that starts
\* with it.
StartsWith(str, prefix) ==
  Len(str) >= Len(prefix) /\ SubSeq(str, 1, Len(prefix)) = prefix

WithoutPrefix(str, prefix) == SubSeq(str, Len(prefix) + 1, Len(str))

-----------------------------------------------------------------------------
(* Sessions: the fields of a session object the handlers below change *)

\* A carousel holds 1..MaxItems items (renderResponse hands 1 to 5 over).
MaxItems == 3

\* The processMessage calls of one behaviour.
MaxCalls == 2

\* No item: getItemById found nothing.  An item is known by its id.
NoItem == <<>>

ItemId(i) == <<(<<"1", "2", "3", "4", "5">>)[i]>>

\* The item lists of the responses: items 1..n.
ItemLists == {[i \in 1..n |-> ItemId(i)] : n \in 1..MaxItems}

NoCarousel == [on |-> FALSE, items |-> <<>>, index |-> 0]

NoBooking == [on |-> FALSE, step |-> "none", item |-> NoItem]

\* processMessage, lines 39-42: the session of a user who has none.
NewSession ==
  [conversationId |-> "null", carousel |-> NoCarousel, booking |-> NoBooking]

-----------------------------------------------------------------------------
(* logic/carousel.js *)

Min(a, b) == IF a <= b THEN a ELSE b

Max(a, b) == IF a >= b THEN a ELSE b

\* Lines 14-25.
initCarousel(session, items) ==
  [session EXCEPT !.carousel = [on |-> TRUE, items |-> items, index |-> 0]]

\* A nextItem that goes round to the first item after the last: what C33
\* must tell from the Math.min of line 39.
nextItemWraps(session) ==
  IF ~session.carousel.on THEN session
  ELSE [session EXCEPT !.carousel.index =
          (session.carousel.index + 1) % Len(session.carousel.items)]

\* Lines 32-50.
nextItem(session) ==
  IF ~session.carousel.on THEN session
  ELSE LET items    == session.carousel.items
           index    == session.carousel.index
           newIndex == Min(index + 1, Len(items) - 1)
       IN  [session EXCEPT !.carousel.index = newIndex]

\* Lines 57-75.
prevItem(session) ==
  IF ~session.carousel.on THEN session
  ELSE LET index    == session.carousel.index
           newIndex == Max(index - 1, 0)
       IN  [session EXCEPT !.carousel.index = newIndex]

\* Lines 82-98: items[index] of a 0-based array.  found is FALSE for null
\* and for an index outside the array (item undefined).
getCurrentItem(session) ==
  LET items == session.carousel.items
      index == session.carousel.index
  IN  IF session.carousel.on /\ index + 1 \in DOMAIN items
      THEN [found |-> TRUE, item |-> items[index + 1], index |-> index,
            total |-> Len(items), isFirst |-> index = 0,
            isLast |-> index = Len(items) - 1]
      ELSE [found |-> FALSE, item |-> NoItem, index |-> index,
            total |-> Len(items), isFirst |-> index = 0,
            isLast |-> index = Len(items) - 1]

\* Lines 106-112.
getItemById(session, itemId) ==
  IF session.carousel.on
       /\ \E i \in DOMAIN session.carousel.items :
            session.carousel.items[i] = itemId
  THEN itemId
  ELSE NoItem

\* Lines 119-123.
clearCarousel(session) == [session EXCEPT !.carousel = NoCarousel]

\* Lines 130-132.
hasActiveCarousel(session) ==
  session.carousel.on /\ Len(session.carousel.items) > 0

-----------------------------------------------------------------------------
(* The booking flow (part_004, lines 690-888) *)

\* A message as the handlers read it: type, text and buttonId, each string
\* empty when the field is absent.  Texts are in lower case.
TextMessage(text) == [type |-> "text", text |-> text, buttonId |-> <<>>]

ButtonMessage(buttonId) == [type |-> "button", text |-> <<>>, buttonId |-> buttonId]

\* Lines 716-727.
startBooking(session, item) ==
  [session EXCEPT !.booking = [on |-> TRUE, step |-> "confirm_item", item |-> item]]

\* Lines 866-870.
cancelBooking(session) == [session EXCEPT !.booking = NoBooking]

\* Lines 877-879.
hasActiveBooking(session) == session.booking.on

\* message.text?.toLowerCase() || message.buttonId || ''
ReplyText(message) ==
  IF message.text # <<>> THEN message.text ELSE message.buttonId

\* What a handler returns: the session, whether it is a new object (a
\* spread copy) or the one passed in, and the prompt sent to the user.
Returned(session, fresh, sent) ==
  [session |-> session, fresh |-> fresh, sent |-> sent]

\* Lines 762-795.
handleConfirmItem(session, message) ==
  LET text == ReplyText(message) IN
  IF Includes(text, STR_yes) \/ Includes(text, STR_confirm)
       \/ text = STR_confirm_yes
  THEN Returned([session EXCEPT !.booking.step = "collect_details"], TRUE, "dates")
  ELSE IF Includes(text, STR_no) \/ Includes(text, STR_cancel)
            \/ text = STR_confirm_no
  THEN Returned(cancelBooking(session), TRUE, "none")
  ELSE Returned(session, FALSE, "confirm_item")

\* Lines 800-830.
handleCollectDetails(session, message) ==
  LET text == message.text IN
  IF Len(text) < 3
  THEN Returned(session, FALSE, "dates")
  ELSE Returned([session EXCEPT !.booking.step = "confirm_booking"], TRUE, "summary")

\* Lines 835-859.
handleConfirmBooking(session, message) ==
  Returned(cancelBooking(session), TRUE, "none")

\* Lines 736-757.  sent is "nothing" when no message goes to the user.
processBookingStep(session, message) ==
  IF ~session.booking.on THEN Returned(session, FALSE, "nothing")
  ELSE CASE session.booking.step = "confirm_item" ->
              handleConfirmItem(session, message)
         [] session.booking.step = "collect_details" ->
              handleCollectDetails(session, message)
         [] session.booking.step = "confirm_booking" ->
              handleConfirmBooking(session, message)
         [] OTHER -> Returned(session, FALSE, "nothing")

-----------------------------------------------------------------------------
(* The orchestrator (part_004, lines 26-544) *)

\* What Myra answers to a text, as handleTextMessage reads it: a failure
\* (newChat / postMessage rejects), or a conversationId, the guardrail action
\* and its itemId, and the items to show.
MyraFails ==
  [ok |-> FALSE, conversationId |-> "null", action |-> "normal",
   itemId |-> NoItem, items |-> <<>>]

MyraResponses ==
  {MyraFails}
    \cup {[ok |-> TRUE, conversationId |-> cid, action |-> "normal",
           itemId |-> NoItem, items |-> items] :
            cid \in {"null", "c1"}, items \in ItemLists \cup {<<>>}}
    \cup {[ok |-> TRUE, conversationId |-> "c1", action |-> "book",
           itemId |-> itemId, items |-> <<>>] :
            itemId \in {NoItem, ItemId(1), ItemId(MaxItems)}}
    \cup {[ok |-> TRUE, conversationId |-> "c1", action |-> "clarify",
           itemId |-> NoItem, items |-> <<>>]}

\* What a branch of processMessage does: saved, whether sessionManager.set
\* is reached; inplace, the loaded object after the assignments made to it;
\* session, fresh and sent as above.
Handled(saved, inplace, session, fresh, sent) ==
  [saved |-> saved, inplace |-> inplace, session |-> session,
   fresh |-> fresh, sent |-> sent]

\* Lines 134-411, for a travel query: the assignment of line 257 is made to
\* the object passed in; initCarousel and startBooking make new objects; the
\* session processBookingStep returns at line 342 is dropped.
handleTextMessage(session, response) ==
  IF ~response.ok THEN Handled(FALSE, session, session, FALSE, "nothing")
  ELSE
    LET inplace ==
          IF session.conversationId = "null" /\ response.conversationId # "null"
          THEN [session EXCEPT !.conversationId = response.conversationId]
          ELSE session
        item == getItemById(inplace, response.itemId)
    IN  CASE response.action = "book" ->
               IF response.itemId # NoItem /\ inplace.carousel.on /\ item # NoItem
               THEN LET started == startBooking(clearCarousel(inplace), item)
                        step    == processBookingStep(started,
                                     ButtonMessage(STR_confirm_prompt))
                    IN  Handled(TRUE, inplace, started, TRUE, step.sent)
               ELSE Handled(TRUE, inplace, inplace, FALSE, "nothing")
          [] response.action = "normal" /\ response.items # <<>> ->
               Handled(TRUE, inplace, initCarousel(inplace, response.items),
                       TRUE, "nothing")
          [] OTHER -> Handled(TRUE, inplace, inplace, FALSE, "nothing")

\* part_002, lines 131-167, for the buttons of the carousel and of the
\* booking prompts: the latter are no actions (null).
checkButtonAction(buttonId) ==
  IF buttonId = STR_carousel_next
    THEN [type |-> "carousel", direction |-> "next", itemId |-> NoItem]
  ELSE IF buttonId = STR_carousel_prev
    THEN [type |-> "carousel", direction |-> "prev", itemId |-> NoItem]
  ELSE IF StartsWith(buttonId, STR_select_)
    THEN [type |-> "select", direction |-> "none",
          itemId |-> WithoutPrefix(buttonId, STR_select_)]
  ELSE [type |-> "null", direction |-> "none", itemId |-> NoItem]

\* Lines 422-545.
handleInteraction(session, message, response) ==
  LET action == checkButtonAction(message.buttonId) IN
  CASE action.type = "null" -> handleTextMessage(session, response)
    [] action.type = "carousel" ->
         IF ~hasActiveCarousel(session)
         THEN Handled(TRUE, session, session, FALSE, "nothing")
         ELSE Handled(TRUE, session,
                      IF action.direction = "next" THEN nextItem(session)
                      ELSE prevItem(session),
                      TRUE, "nothing")
    [] action.type = "select" ->
         LET selectedItem == getItemById(session, action.itemId) IN
         IF selectedItem # NoItem
         THEN Handled(TRUE, session,
                      startBooking(clearCarousel(session), selectedItem),
                      TRUE, "confirm_item")
         ELSE Handled(TRUE, session, session, FALSE, "nothing")

\* Lines 51-72: the branch processMessage takes for the session it holds.
processMessage(session, message, response) ==
  IF hasActiveBooking(session)
  THEN LET r == processBookingStep(session, message)
       IN  Handled(TRUE, session, r.session, r.fresh, r.sent)
  ELSE IF message.type = "button"
  THEN handleInteraction(session, message, response)
  ELSE IF message.type = "text" /\ message.text # <<>>
  THEN handleTextMessage(session, response)
  ELSE Handled(FALSE, session, session, FALSE, "nothing")

\* The messages a user sends: searches and replies typed, buttons pressed.
Messages ==
  {TextMessage(t) : t \in {STR_goa, STR_yes, STR_no, STR_dates, STR_hi}}
    \cup {ButtonMessage(b) :
            b \in {STR_carousel_next, STR_carousel_prev, STR_confirm_yes,
                   STR_confirm_no, STR_book_confirm, STR_book_cancel,
                   STR_select_ \o ItemId(1), STR_select_ \o ItemId(MaxItems)}}

-----------------------------------------------------------------------------
(* Session objects and the calls that hold them *)

\* The user whose messages are handled.
User == "u1"

\* Session objects live in slots; the heap holds the slots an entry or a
\* running call refers to, the others are free.
Slots == 1..(MaxCalls + 2)

NoObjects == [i \in {} |-> NewSession]

Fields == {"conversationId", "carousel", "booking"}

\* A call of processMessage: where it is, its message, the object it holds,
\* and, once done, the fields its handler changed and the session it wrote.
NoCall ==
  [pc |-> "idle", message |-> TextMessage(<<>>), session |-> Null,
   did |-> {}, out |-> NewSession]

\* The calls made so far, in the order they began: none.
NoCalls == <<>>

\* The objects an entry of the store or a running call refers to.
Referenced(st, cs) ==
  {st[k].data : k \in {k \in Keys : st[k].has}}
    \cup {cs[c].session : c \in {c \in DOMAIN cs : cs[c].pc = "running"}}

\* The least slot nothing refers to.
FreeSlot(st, cs) ==
  CHOOSE i \in Slots \ Referenced(st, cs) :
    \A j \in Slots \ Referenced(st, cs) : i <= j

\* The heap with the slots nothing refers to any more set free.
Collected(hp, st, cs) ==
  [i \in DOMAIN hp \cap Referenced(st, cs) |-> hp[i]]

\* The heap with object obj in slot i.
WithObject(hp, i, obj) ==
  [j \in DOMAIN hp \cup {i} |-> IF j = i THEN obj ELSE hp[j]]

-----------------------------------------------------------------------------
(* The orchestrator at rest *)

\* The store and the orchestrator before any message is handled.
AppIdle ==
  /\ now = 0
  /\ ttl = MaxTtl
  /\ store = EmptyStore
  /\ heap = NoObjects
  /\ calls = NoCalls
  /\ prompted = "none"

-----------------------------------------------------------------------------
(* The client's behaviours, from its construction *)

\* new MyraWSClient(): lines 173-182.
Constructed ==
  /\ ws = "null"
  /\ orphans = NoOrphans
  /\ isConnected = FALSE
  /\ reconnectAttempts = 0
  /\ heartbeatInterval = FALSE
  /\ leakedIntervals = 0
  /\ reconnectTimers = 0
  /\ pendingRequests = <<>>
  /\ queries = [q \in 1..MaxQueries |-> NoQuery]
  /\ nq = 0
  /\ emitted = "none"

Init == Constructed /\ AppIdle

Queries == DOMAIN queries

Next ==
  \/ Connect
  \/ Disconnect
  \/ ReconnectTimer
  \/ WsOpen
  \/ WsClosing
  \/ WsClose
  \/ OrphanOpen
  \/ OrphanClose
  \/ Heartbeat
  \/ \E tempId \in PayloadTempIds : Send(tempId)
  \/ \E q \in Queries : Timeout(q)
  \/ \E q \in Queries, error \in BOOLEAN : SendCallback(q, error)
  \/ \E f \in Frames : Message(f)

Spec == Init /\ [][Next]_vars

\* Node's event loop runs every timer that is due and every callback that is
\* ready; a socket that is connecting or closing ends up open or closed.
\* Nothing obliges a caller to call, the server to send a frame, or an open
\* socket to fail.
Fairness ==
  /\ \A q \in 1..MaxQueries : WF_vars(Timeout(q))
  /\ \A q \in 1..MaxQueries : WF_vars(\E error \in BOOLEAN : SendCallback(q, error))
  /\ WF_vars(ReconnectTimer)
  /\ WF_vars(Heartbeat)
  /\ WF_vars(ws = "CONNECTING" /\ (WsOpen \/ WsClose))
  /\ WF_vars(ws = "CLOSING" /\ WsClose)
  /\ WF_vars(OrphanOpen \/ OrphanClose)

FairSpec == Spec /\ Fairness

-----------------------------------------------------------------------------
(* The correlation table over an established connection: the client after   *)
(* connect() and the socket's 'open', the socket staying up unless           *)
(* disconnect() is called.  The connection handlers left out here change     *)
(* neither this.pendingRequests nor any promise.                             *)

Connected(n) ==
  /\ ws = "OPEN"
  /\ orphans = NoOrphans
  /\ isConnected = TRUE
  /\ reconnectAttempts = 0
  /\ heartbeatInterval = TRUE
  /\ leakedIntervals = 0
  /\ reconnectTimers = 0
  /\ pendingRequests = <<>>
  /\ queries = [q \in 1..n |-> NoQuery]
  /\ nq = 0
  /\ emitted = "connected"
  /\ AppIdle

\* One query at a time, with every kind of token and frame.
InitOne == Connected(MaxQueries)

NextOne ==
  \/ Disconnect
  \/ \E tempId \in PayloadTempIds : Send(tempId)
  \/ \E q \in Queries : Timeout(q)
  \/ \E q \in Queries, error \in BOOLEAN : SendCallback(q, error)
  \/ \E f \in Frames : Message(f)

SpecOne == InitOne /\ [][NextOne]_vars

\* Several queries in flight at once.
InitCorr == Connected(MaxConcurrent)

NextCorr ==
  \/ Disconnect
  \/ \E tempId \in ConcurrentTempIds : Send(tempId)
  \/ \E q \in Queries : Timeout(q)
  \/ \E q \in Queries, error \in BOOLEAN : SendCallback(q, error)
  \/ \E f \in ConcurrentFrames : Message(f)

SpecCorr == InitCorr /\ [][NextCorr]_vars

\* The same, with resolvePending also called from outside handleMessage.
NextResolve ==
  \/ NextCorr
  \/ \E tempId \in {StrRaw(S1), StrRaw(S2), StrRaw(S12), NumRaw(S1)},
        ev \in {"NEW_MESSAGE", "ASSISTANT_REPLY"} :
       ResolvePendingCall(tempId, [eventType |-> ev, conversationId |-> "c2"])

SpecResolve == InitCorr /\ [][NextResolve]_vars

\* The connection life cycle with the queries sent over it, frames aside:
\* no handler of this specification reads what a frame leaves behind.
NextConn ==
  \/ Connect
  \/ Disconnect
  \/ ReconnectTimer
  \/ WsOpen
  \/ WsClosing
  \/ WsClose
  \/ OrphanOpen
  \/ OrphanClose
  \/ Heartbeat
  \/ \E tempId \in PayloadTempIds : Send(tempId)
  \/ \E q \in Queries : Timeout(q)
  \/ \E q \in Queries, error \in BOOLEAN : SendCallback(q, error)

SpecConn == Init /\ [][NextConn]_vars

-----------------------------------------------------------------------------
(* newChat / postMessage: queries whose token the payload builders make *)

\* Readings of Date.now(), in milliseconds: those whose decimal form is
\* written with the digits 1 and 2 only.
Times == {1, 2, 12}

\* Number.prototype.toString: the decimal digits, most significant first.
RECURSIVE DateNowToString(_)
DateNowToString(t) ==
  IF t < 10 THEN <<t>> ELSE Append(DateNowToString(t \div 10), t % 10)

\* Lines 44-52 and 95-103: uiMetadata.tempId is Date.now().toString().
buildNewChatPayload(t) ==
  [eventType |-> "NEW_CHAT", tempId |-> StrRaw(DateNowToString(t))]

buildPostMessagePayload(t) ==
  [eventType |-> "POST_MESSAGE", tempId |-> StrRaw(DateNowToString(t))]

\* The clock reading query q was built at.
BuiltAt(q) == CHOOSE t \in Times : DateNowToString(t) = ToStr(queries[q].tok)

\* The clock does not run backwards: t is no earlier than the reading of any
\* query built so far.  It may be the same reading: two calls in one
\* millisecond.
ClockReads(t) == \A q \in 1..nq : BuiltAt(q) <= t

\* Lines 563-566.
newChat(t) == ClockReads(t) /\ Send(buildNewChatPayload(t).tempId)

\* Lines 574-577.
postMessage(t) == ClockReads(t) /\ Send(buildPostMessagePayload(t).tempId)

NextChat ==
  \/ Disconnect
  \/ \E t \in Times : newChat(t)
  \/ \E t \in Times : postMessage(t)
  \/ \E q \in Queries : Timeout(q)
  \/ \E q \in Queries, error \in BOOLEAN : SendCallback(q, error)
  \/ \E f \in ConcurrentFrames : Message(f)

SpecChat == InitCorr /\ [][NextChat]_vars

-----------------------------------------------------------------------------
(* Frames in their variety: the isCompleted flag, the four token places *)

\* Frames with data.message.isCompleted set to true.
CompletedFrames == {[f EXCEPT !.isCompleted = TRUE] : f \in Frames}

\* What one of the four places may hold: nothing, the empty string, a token.
PlacedTokens == {NoRaw, StrRaw(<<>>), StrRaw(S1), StrRaw(S2)}

\* At most this many of the four places hold a value in one frame.
MaxPlaced == 2

Placings ==
  {tp \in [1..4 -> PlacedTokens] :
     Cardinality({i \in 1..4 : tp[i] # NoRaw}) <= MaxPlaced}

\* Frames with substantive content and values at several of the places
\* uiMetadata.tempId, tempId, data.uiMetadata.tempId, headers['request-id'].
PlacedFrames ==
  {Frame(ev, tp, "null", {"TEXT"}, FALSE, FALSE) :
     ev \in EventTypes, tp \in Placings}

WideFrames == Frames \cup CompletedFrames \cup PlacedFrames

NextFrames ==
  \/ Disconnect
  \/ \E tempId \in PayloadTempIds : Send(tempId)
  \/ \E q \in Queries : Timeout(q)
  \/ \E q \in Queries, error \in BOOLEAN : SendCallback(q, error)
  \/ \E f \in WideFrames : Message(f)

SpecFrames == InitOne /\ [][NextFrames]_vars

-----------------------------------------------------------------------------
(* The session store's behaviours: get / set / has / delete / cleanup *)

\* What callers store: references to session objects.
StoredData == {1, 2}

orchVars == <<heap, calls, prompted>>

\* Time passes.
Tick ==
  /\ now < MaxTime
  /\ now' = now + 1
  /\ UNCHANGED <<clientVars, ttl, store, orchVars>>

StoreGet(key) ==
  /\ store' = MemoryStore_get(store, now, key).store
  /\ UNCHANGED <<clientVars, now, ttl, orchVars>>

StoreSet(key, data) ==
  /\ store' = MemoryStore_set(store, now, ttl, key, data)
  /\ UNCHANGED <<clientVars, now, ttl, orchVars>>

StoreDelete(key) ==
  /\ store' = MemoryStore_delete(store, key)
  /\ UNCHANGED <<clientVars, now, ttl, orchVars>>

StoreHas(key) ==
  /\ store' = MemoryStore_has(store, now, key).store
  /\ UNCHANGED <<clientVars, now, ttl, orchVars>>

\* Line 15: the cleanup interval runs.
StoreCleanup ==
  /\ store' = MemoryStore_cleanup(store, now)
  /\ UNCHANGED <<clientVars, now, ttl, orchVars>>

\* new MemoryStore(ttlMinutes), lines 10-18, next to a client just made.
InitStore ==
  /\ Constructed
  /\ now = 0
  /\ ttl \in 1..MaxTtl
  /\ store = EmptyStore
  /\ heap = NoObjects
  /\ calls = NoCalls
  /\ prompted = "none"

NextStore ==
  \/ Tick
  \/ \E key \in Keys : StoreGet(key)
  \/ \E key \in Keys, data \in StoredData : StoreSet(key, data)
  \/ \E key \in Keys : StoreDelete(key)
  \/ \E key \in Keys : StoreHas(key)
  \/ StoreCleanup

SpecStore == InitStore /\ [][NextStore]_vars

-----------------------------------------------------------------------------
(* The orchestrator's behaviours: processMessage calls for one user *)

Calls == 1..MaxCalls

\* The fields in which two sessions differ.
Changed(a, b) == {f \in Fields : a[f] # b[f]}

\* Lines 26-42: processMessage loads the session, or makes a new one;
\* sessionManager.get runs store.get before the first await.
Loads(c, message) ==
  /\ LET g   == MemoryStore_get(store, now, User)
         ref == IF g.val # Null THEN g.val ELSE FreeSlot(g.store, calls)
         call == [NoCall EXCEPT !.pc = "running", !.message = message,
                                !.session = ref]
         cs  == IF c \in DOMAIN calls THEN [calls EXCEPT ![c] = call]
                ELSE Append(calls, call)
     IN  /\ store' = g.store
         /\ calls' = cs
         /\ heap' = Collected(IF g.val # Null THEN heap
                               ELSE WithObject(heap, ref, NewSession),
                               g.store, cs)
  /\ UNCHANGED <<clientVars, now, ttl, prompted>>

\* The webhook calls processMessage for the next message, whatever the
\* calls before it are doing.
Begin(c, message) ==
  /\ c = Len(calls) + 1
  /\ Loads(c, message)

\* Lines 51-70: the awaited calls of the handler are over; the handler
\* changes the session and processMessage writes it back.
Finish(c, response) ==
  /\ c \in DOMAIN calls
  /\ calls[c].pc = "running"
  /\ LET ref == calls[c].session
         r   == processMessage(heap[ref], calls[c].message, response)
         out == IF r.fresh THEN FreeSlot(store, calls) ELSE ref
         hp  == WithObject(WithObject(heap, ref, r.inplace), out, r.session)
         st  == IF r.saved THEN MemoryStore_set(store, now, ttl, User, out)
                ELSE store
         cs  == [calls EXCEPT ![c] =
                   [NoCall EXCEPT !.pc = "done",
                                  !.did = IF r.saved
                                          THEN Changed(heap[ref], r.session)
                                          ELSE {},
                                  !.out = r.session]]
     IN  /\ store' = st
         /\ calls' = cs
         /\ heap' = Collected(hp, st, cs)
         /\ prompted' = IF r.sent = "nothing" THEN prompted ELSE r.sent
  /\ UNCHANGED <<clientVars, now, ttl>>

\* A message that arrives when the call before it is over.
BeginAlone(message) ==
  /\ \A d \in DOMAIN calls : calls[d].pc # "running"
  /\ Loads(1, message)

\* Messages handled one after the other, as many as the user sends.
NextTurns ==
  \/ \E message \in Messages : BeginAlone(message)
  \/ \E c \in Calls, response \in MyraResponses : Finish(c, response)

SpecTurns == Init /\ [][NextTurns]_vars

\* Messages handled as they arrive, a call beginning while others run.
NextOrch ==
  \/ \E c \in Calls, message \in Messages : Begin(c, message)
  \/ \E c \in Calls, response \in MyraResponses : Finish(c, response)

SpecOrch == Init /\ [][NextOrch]_vars

-----------------------------------------------------------------------------
(* Notions the properties share *)

Entries(tbl) == {tbl[i] : i \in 1..Len(tbl)}

\* The query whose entry is registered under key (0: no entry).
Owner(tbl, key) == IF Has(tbl, key) THEN Get(tbl, key).q ELSE 0

\* The string under which handleMessage looks frame f up.
FrameKey(f) == ToStr(ExtractTempId(f))

\* Entry e is in the table, for the same query, after the step.
Kept(e) == \E d \in Entries(pendingRequests') : d.tempId = e.tempId /\ d.q = e.q

\* Neither the table nor any promise changes in the step.
Untouched == pendingRequests' = pendingRequests /\ queries' = queries

\* One string occurs inside the other.
Related(a, b) == Includes(a, b) \/ Includes(b, a)

-----------------------------------------------------------------------------
(* C1 .. C10 *)

\* C1: every query eventually completes: under fair scheduling of timers and
\* socket events a pending promise is resolved or rejected (or the process has
\* died), whatever else is called in between.
C1_EveryQueryCompletes ==
  \A q \in 1..MaxQueries :
    (queries[q].st = "pending") ~> (queries[q].st # "pending" \/ emitted = "crash")

\* C2: disconnect() empties the table and rejects, with a connection-closed
\* error, the promise of every query that was pending in it.
C2_DisconnectRejectsPending ==
  [][Disconnect =>
       /\ pendingRequests' = <<>>
       /\ \A e \in Entries(pendingRequests) :
            queries[e.q].st = "pending" =>
              /\ queries'[e.q].st = "rejected"
              /\ queries'[e.q].err = "connection_closed"]_vars

SomeEntryLeft == \E e \in Entries(pendingRequests) : ~Kept(e)

\* C3: a loading-only frame of any event type completes no query
\* and removes no entry; an entry leaves the table only through a frame that is
\* not loading only, a timeout, a transmission failure or disconnect().
C3_PreliminaryNeverCompletes ==
  [][/\ \A f \in Frames :
          (Message(f) /\ LoaderOnly(f)) =>
             (queries' = queries /\ ~SomeEntryLeft)
     /\ SomeEntryLeft =>
          \/ \E f \in Frames : Message(f) /\ ~LoaderOnly(f)
          \/ \E q \in Queries : Timeout(q)
          \/ \E q \in Queries : SendCallback(q, TRUE)
          \/ Disconnect]_vars

\* In the outcome r of a handler, every query but the owner of key keeps its
\* promise as it was, and every entry under another key is still in the table
\* with its accumulator.
IsolatedFrom(r, key) ==
  /\ \A q \in Queries : q # Owner(pendingRequests, key) => r.q[q] = queries[q]
  /\ \A e \in Entries(pendingRequests) : e.tempId # key => e \in Entries(r.p)

DirectTempIds == {StrRaw(S1), StrRaw(S2), StrRaw(S12), NumRaw(S1)}

DirectResponses ==
  {[eventType |-> ev, conversationId |-> "c2"] : ev \in {"NEW_MESSAGE", "ASSISTANT_REPLY"}}

\* C4: isolation. In every reachable state, handling a frame that carries a
\* pending token, or calling resolvePending with a pending token, can change
\* only that token's promise, and leaves every entry under another token in
\* the table as it was, accumulator included.
C4_Isolation ==
  /\ \A f \in ConcurrentFrames :
       Has(pendingRequests, FrameKey(f)) =>
         IsolatedFrom(handleMessage(pendingRequests, queries, f), FrameKey(f))
  /\ \A tempId \in DirectTempIds, response \in DirectResponses :
       Has(pendingRequests, ToStr(tempId)) =>
         IsolatedFrom(ResolvePending(pendingRequests, queries, tempId, response),
                      ToStr(tempId))

\* C4 witness: one query has been resolved through its token while another
\* query, under a different token, is still pending with its entry in place.
C4_Witness ==
  \E q1, q2 \in Queries :
    /\ queries[q1].st = "resolved"
    /\ queries[q1].res # NoMsg
    /\ queries[q2].st = "pending"
    /\ ToStr(queries[q1].tok) # ToStr(queries[q2].tok)
    /\ Owner(pendingRequests, ToStr(queries[q2].tok)) = q2
    /\ ~Has(pendingRequests, ToStr(queries[q1].tok))

\* Some query was registered under key, has been resolved, and key is no
\* longer in the table.
AlreadyResolved(key) ==
  /\ ~Has(pendingRequests, key)
  /\ \E q \in Queries : queries[q].st = "resolved" /\ ToStr(queries[q].tok) = key

\* C5: idempotence. A second resolvePending for a token already resolved, or
\* a duplicate completing frame for it, changes nothing: no promise is
\* completed and no entry is removed.
C5_SecondResolveIsNoOp ==
  [][/\ \A tempId \in DirectTempIds, response \in DirectResponses :
          (ResolvePendingCall(tempId, response) /\ AlreadyResolved(ToStr(tempId))) =>
             Untouched
     /\ \A f \in ConcurrentFrames :
          (Message(f) /\ AlreadyResolved(FrameKey(f))) => Untouched]_vars

\* C6: once the reconnect attempts are used up and maxReconnectReached has been
\* emitted, the table is empty and no promise is pending.
C6_MaxReconnectDrains ==
  emitted = "maxReconnectReached" =>
    /\ pendingRequests = <<>>
    /\ \A q \in Queries : queries[q].st # "pending"

\* Query q was rejected by its deadline and its token is out of the table.
TimedOut(q) ==
  /\ queries[q].st = "rejected"
  /\ queries[q].err = "timeout"
  /\ ~Has(pendingRequests, ToStr(queries[q].tok))

C8_SubstringFrameResolves ==
  [][\A f \in Frames :
       (/\ Message(f)
        /\ f.eventType = "NEW_MESSAGE"
        /\ HasActualContent(f)
        /\ Truthy(ExtractTempId(f))
        /\ ~Has(pendingRequests, FrameKey(f))
        /\ \E e \in Entries(pendingRequests) :
             Related(e.tempId, FrameKey(f)) /\ queries[e.q].st = "pending") =>
          \E e \in Entries(pendingRequests) :
             /\ Related(e.tempId, FrameKey(f))
             /\ queries[e.q].st = "pending"
             /\ queries'[e.q].st = "resolved"]_vars

\* C9: accepted-then-reply merge. In every reachable state with a pending
\* query: handling a NEW_CHAT_CREATED frame with the query's token and a
\* conversationId leaves the query pending and its entry in place, holding the
\* frame; and once the entry holds such a frame, handling a NEW_MESSAGE frame
\* with the token, TEXT/CARD/LIST content and no conversationId resolves the
\* query with that message carrying the conversationId of the
\* NEW_CHAT_CREATED frame, and removes the entry.
C9_ChatCreatedMerge ==
  \A f \in Frames :
    LET key == FrameKey(f)
        q == Owner(pendingRequests, key)
        r == handleMessage(pendingRequests, queries, f)
    IN (Matches(pendingRequests, ExtractTempId(f)) /\ queries[q].st = "pending") =>
         /\ (f.eventType = "NEW_CHAT_CREATED" /\ f.conversationId # "null") =>
              /\ r.q = queries
              /\ Owner(r.p, key) = q
              /\ Get(r.p, key).chatCreated = Msg(f)
         /\ (/\ f.eventType = "NEW_MESSAGE"
             /\ HasActualContent(f)
             /\ f.conversationId = "null"
             /\ Get(pendingRequests, key).chatCreated # NoMsg
             /\ Get(pendingRequests, key).chatCreated.conversationId # "null") =>
              /\ r.q[q].st = "resolved"
              /\ r.q[q].res.eventType = "NEW_MESSAGE"
              /\ r.q[q].res.conversationId =
                   Get(pendingRequests, key).chatCreated.conversationId
              /\ ~Has(r.p, key)

\* C9 witness: a query has been resolved with a NEW_MESSAGE whose
\* conversationId is the one only NEW_CHAT_CREATED frames carry.
C9_Witness ==
  \E q \in Queries :
    /\ queries[q].st = "resolved"
    /\ queries[q].res = [eventType |-> "NEW_MESSAGE", conversationId |-> "c1"]

\* C10: while the client has no socket (disconnect() was the last call on the
\* connection and connect() has not been called since), no reconnect attempt is
\* scheduled, isConnected does not become true and no liveness probe is sent.
C10_StaysDisconnected ==
  [][(ws = "null" /\ ws' = "null") =>
       /\ reconnectTimers' <= reconnectTimers
       /\ ~isConnected'
       /\ emitted' # "probe"]_vars

-----------------------------------------------------------------------------
(* C11 .. C20 *)

\* What send rejects with before it hands anything to the socket: its two
\* Errors, and the TypeError of reading readyState of a missing socket.
TransmissionErrors == {"not_connected", "not_ready", "type_error"}

\* The socket is not there, or not open, or the client is not connected.
CannotTransmit == ~isConnected \/ ws # "OPEN"

\* C11: a query sent while the client is not connected, or while its socket
\* is not OPEN, has its promise rejected by send itself, with a transmission
\* error, and no deadline timer is left to wait for.
C11_RejectedAtOnceWhenNotOpen ==
  [][\A tempId \in PayloadTempIds :
       (Send(tempId) /\ CannotTransmit) =>
          /\ queries'[nq + 1].st = "rejected"
          /\ queries'[nq + 1].err \in TransmissionErrors
          /\ ~queries'[nq + 1].timer]_vars

\* C11 witness: a query was sent while the client was not connected, and is
\* rejected with no timer armed.
C11_Witness ==
  /\ ~isConnected
  /\ \E q \in Queries :
       /\ queries[q].st = "rejected"
       /\ queries[q].err = "not_connected"
       /\ ~queries[q].timer

\* C12: a payload is handed to the socket only by a send made while the
\* client is connected and its socket OPEN; a send in any other state leaves
\* the table as it was, arms no deadline timer and hands nothing to the socket.
C12_TransmitsOnlyWhenOpen ==
  [][\A tempId \in PayloadTempIds :
       Send(tempId) =>
          /\ emitted' = "payload" => (isConnected /\ ws = "OPEN")
          /\ CannotTransmit =>
               /\ pendingRequests' = pendingRequests
               /\ ~queries'[nq + 1].timer
               /\ ~queries'[nq + 1].cb
               /\ emitted' # "payload"]_vars

\* C12 witness: a query was sent while isConnected was true and the socket
\* was not OPEN; nothing is registered and nothing was transmitted.
C12_Witness ==
  /\ isConnected
  /\ ws \in {"CONNECTING", "CLOSING", "CLOSED"}
  /\ emitted = "none"
  /\ pendingRequests = <<>>
  /\ \E q \in Queries :
       queries[q].err = "not_ready" /\ ~queries[q].timer /\ ~queries[q].cb

\* Sockets that are connecting or open and have this client's handlers on
\* them: the one this.ws references and those it no longer references.
LiveSocketCount ==
  (IF ws \in {"CONNECTING", "OPEN"} THEN 1 ELSE 0)
    + orphans["CONNECTING"] + orphans["OPEN"]

\* C13: at every moment at most one socket of the client is connecting or
\* open.
C13_SingleLiveSocket == LiveSocketCount <= 1

\* C14: connect() called while the client is connected changes nothing: no
\* new socket, no handlers, no further heartbeat timer, the reconnect counter
\* and the pending table as they were.
C14_ConnectIdempotentWhenConnected ==
  [][(Connect /\ isConnected) =>
       UNCHANGED <<connVars, pendingRequests, queries, nq>>]_vars

\* C14 witness: the client is connected over its one open socket with one
\* heartbeat running, and the latest handler (connect() among them) emitted
\* nothing.
C14_Witness ==
  /\ isConnected
  /\ ws = "OPEN"
  /\ OrphanCount = 0
  /\ heartbeatInterval
  /\ leakedIntervals = 0
  /\ emitted = "none"

\* C15: the token the payload builders make for a query is in the table for
\* no other query at the moment the query is sent.
C15_FreshToken ==
  [][\A t \in Times :
       (newChat(t) \/ postMessage(t)) =>
          ~Has(pendingRequests, DateNowToString(t))]_vars

\* Query q's own failure: its deadline fires, or the socket reports an error
\* for its payload.
FailsAlone(q) == Timeout(q) \/ SendCallback(q, TRUE)

\* C16: when the deadline of query q fires, or its transmission fails, no
\* other query's promise changes and no other query's entry leaves the table.
C16_FailureTouchesOnlyItsQuery ==
  [][\A q \in Queries :
       FailsAlone(q) =>
          /\ \A k \in Queries : k # q => queries'[k] = queries[k]
          /\ \A e \in Entries(pendingRequests) :
               e.q # q => e \in Entries(pendingRequests')]_vars

\* C17: the deadline timer of a query that has been resolved, whenever it
\* fires, rejects nothing and removes no entry from the table.
C17_TimerDeadAfterResolution ==
  [][\A q \in Queries :
       (Timeout(q) /\ queries[q].st = "resolved") =>
          /\ pendingRequests' = pendingRequests
          /\ \A k \in Queries : queries'[k].st = queries[k].st]_vars

\* C18: the send that hands a query's payload to the socket has registered
\* the query's token first: in the state the payload goes out in, the token is
\* in the table for that query, and every frame carrying the token finds it.
C18_RegisteredBeforeTransmission ==
  /\ [][\A tempId \in PayloadTempIds :
          (Send(tempId) /\ emitted' = "payload" /\ Truthy(tempId)) =>
             Owner(pendingRequests', ToStr(tempId)) = nq + 1]_vars
  /\ []((emitted = "payload" /\ Truthy(queries[nq].tok)) =>
          \A f \in Frames :
            FrameKey(f) = ToStr(queries[nq].tok) =>
              Matches(pendingRequests, ExtractTempId(f)))

\* C18 witness: a payload with a token has just been handed to the open
\* socket; its query is pending and owns the token's entry.
C18_Witness ==
  /\ emitted = "payload"
  /\ Delivering
  /\ nq > 0
  /\ queries[nq].st = "pending"
  /\ queries[nq].cb
  /\ Truthy(queries[nq].tok)
  /\ Owner(pendingRequests, ToStr(queries[nq].tok)) = nq

C20_ReconnectBackoff ==
  /\ [][reconnectTimers' > reconnectTimers =>
          /\ reconnectAttempts' = reconnectAttempts + 1
          /\ ReconnectDelayOf(reconnectAttempts') > ReconnectDelayOf(reconnectAttempts)]_vars
  /\ [](reconnectAttempts <= maxReconnectAttempts)
  /\ [][reconnectAttempts' < reconnectAttempts =>
          (reconnectAttempts' = 0 /\ isConnected')]_vars

\* C20 witness: the last attempt allowed has been scheduled after a run of
\* closes with no open in between.
C20_Witness ==
  /\ reconnectAttempts = maxReconnectAttempts
  /\ reconnectTimers > 0
  /\ ~isConnected

-----------------------------------------------------------------------------
(* C21 .. C30 *)

\* C21: when a socket opens, the client is connected, the attempt counter is
\* zero and the heartbeat timer is running; a close that follows the open
\* counts as attempt number 1 and schedules its reconnect.
C21_OpenResetsBackoff ==
  /\ [](emitted = "connected" =>
          isConnected /\ reconnectAttempts = 0 /\ heartbeatInterval)
  /\ [][(emitted = "connected" /\ (WsClose \/ OrphanClose)) =>
          /\ reconnectAttempts' = 1
          /\ reconnectTimers' = reconnectTimers + 1]_vars

\* C21 witness: a socket has just opened, the counter is zero and the
\* heartbeat runs.
C21_Witness ==
  /\ emitted = "connected"
  /\ ws = "OPEN"
  /\ isConnected
  /\ reconnectAttempts = 0
  /\ heartbeatInterval

\* Query q was transmitted, its token is registered under its deadline and
\* the transmission has completed.
InFlight(q) ==
  /\ queries[q].st = "pending"
  /\ Truthy(queries[q].tok)
  /\ ~queries[q].cb

\* C22: a 'close' event leaves the table and every promise as they are and
\* transmits nothing; a payload is transmitted only by the send() of a new
\* query, never again for a query already sent; and a query in flight, with
\* no frame arriving, is completed by nothing but the timeout rejection.
C22_CloseNeverRetries ==
  /\ [][(WsClose \/ OrphanClose) =>
          /\ UNCHANGED <<pendingRequests, queries, nq>>
          /\ emitted' # "payload"]_vars
  /\ [][emitted' = "payload" =>
          /\ nq' = nq + 1
          /\ \A q \in 1..nq : queries'[q] = queries[q]]_vars
  /\ [][\A q \in Queries :
          (InFlight(q) /\ queries'[q].st # "pending") =>
            /\ queries'[q].st = "rejected"
            /\ queries'[q].err = "timeout"]_vars

\* C22 witness: the socket has closed and a reconnect is scheduled while a
\* query in flight still owns its entry.
C22_Witness ==
  /\ ws = "CLOSED"
  /\ ~isConnected
  /\ reconnectTimers > 0
  /\ \E q \in Queries :
       /\ InFlight(q)
       /\ Owner(pendingRequests, ToStr(queries[q].tok)) = q

\* C23: a probe is handed to the socket only while the client is connected,
\* the envelope built for it has no token, and a run of the heartbeat
\* callback, whether its probe is transmitted, dropped or throws, leaves the
\* table, the promises and the number of queries as they are.
C23_ProbeLeavesTableAlone ==
  /\ [](~Truthy(buildHeartbeatPayload.tempId))
  /\ [][emitted' = "probe" => isConnected]_vars
  /\ [][(Heartbeat \/ emitted' \in {"probe", "crash"}) =>
          UNCHANGED <<pendingRequests, queries, nq>>]_vars

\* C23 witness: a probe has just been transmitted while a query is in the
\* table.
C23_Witness ==
  /\ emitted = "probe"
  /\ isConnected
  /\ pendingRequests # <<>>
  /\ \E q \in Queries : queries[q].st = "pending"

\* C24 as stated: a heartbeat run whose probe cannot be transmitted leaves
\* the connected state, stops the heartbeat and enters handleReconnect.
\* The code does none of it.
C24_ProbeFailureReconnects ==
  [][(Heartbeat /\ isConnected /\ ws # "OPEN") =>
       /\ ~isConnected'
       /\ ~heartbeatInterval'
       /\ \/ reconnectTimers' > reconnectTimers
          \/ emitted' = "maxReconnectReached"]_vars

\* The frame with the other value of data.message.isCompleted.
FlipCompleted(f) == [f EXCEPT !.isCompleted = ~f.isCompleted]

\* A frame with TEXT/CARD/LIST content, or a leadingQuestion, or no loading
\* marker.
NotLoadingOnly(f) ==
  HasActualContent(f) \/ HasLeadingQuestion(f) \/ ~HasLoaderText(f)

\* Handling f calls the resolve handle of the query that owns the entry of
\* f's token and removes the entry; a pending promise is thereby resolved.
ResolvesOwner(r, f) ==
  LET key == FrameKey(f)
      q   == Owner(pendingRequests, key)
  IN  /\ r.who = q
      /\ ~Has(r.p, key)
      /\ queries[q].st = "pending" => r.q[q].st = "resolved"

\* Handling the frame changes neither the table nor any promise.
LeavesAll(r) == r.p = pendingRequests /\ r.q = queries /\ r.who = 0

\* C25: in every reachable state, handling a frame and handling the same
\* frame with the other value of isCompleted give the same table and the
\* same promises; and a NEW_MESSAGE frame whose token is in the table
\* resolves the owner of the entry if the frame has TEXT/CARD/LIST content,
\* a leadingQuestion or no loading marker, and changes nothing otherwise.
C25_FinalityIgnoresIsCompleted ==
  \A f \in WideFrames :
    LET r == handleMessage(pendingRequests, queries, f)
    IN  /\ handleMessage(pendingRequests, queries, FlipCompleted(f)) = r
        /\ (f.eventType = "NEW_MESSAGE"
              /\ Matches(pendingRequests, ExtractTempId(f))) =>
             IF NotLoadingOnly(f) THEN ResolvesOwner(r, f) ELSE LeavesAll(r)

\* C25 witness: frames can be delivered while a query is pending, and a
\* NEW_MESSAGE frame for its token that is loading-only and flagged
\* isCompleted leaves it pending, while the same payload with TEXT content
\* and the flag unset resolves it.
C25_Witness ==
  /\ Delivering
  /\ \E q \in Queries, f \in CompletedFrames, g \in Frames :
       /\ queries[q].st = "pending"
       /\ f.eventType = "NEW_MESSAGE" /\ g.eventType = "NEW_MESSAGE"
       /\ Owner(pendingRequests, FrameKey(f)) = q
       /\ FrameKey(g) = FrameKey(f)
       /\ f.content = {"LOADER_TEXT"} /\ ~f.leadingQuestion
       /\ g.content = {"TEXT"}
       /\ handleMessage(pendingRequests, queries, f).q[q].st = "pending"
       /\ handleMessage(pendingRequests, queries, g).q[q].st = "resolved"

\* The first of the four places of f that holds a non-empty value, 0 when
\* none does.
FirstPlace(f) ==
  LET filled == {i \in 1..4 : Truthy(f.tempIds[i])}
  IN  IF filled = {} THEN 0 ELSE CHOOSE i \in filled : \A j \in filled : i <= j

\* C26: the token of a frame is the string form of the first non-empty value
\* among uiMetadata.tempId, tempId, data.uiMetadata.tempId and
\* headers['request-id'], in this order, and there is none when all four are
\* empty; in every reachable state, a frame whose first non-empty value is
\* not a key of the table changes neither the table nor any promise,
\* whatever its later places hold.
C26_FirstPlaceWins ==
  \A f \in WideFrames :
    LET i == FirstPlace(f)
    IN  /\ ExtractTempId(f) =
             IF i = 0 THEN NoRaw ELSE StrRaw(ToStr(f.tempIds[i]))
        /\ (i # 0 /\ ~Has(pendingRequests, ToStr(f.tempIds[i]))) =>
             LeavesAll(handleMessage(pendingRequests, queries, f))

\* C26 witness: a query is pending and a NEW_MESSAGE frame with content
\* holds an unknown token at its first place and the query's token at a
\* later one; handling it leaves the query pending.
C26_Witness ==
  /\ Delivering
  /\ \E q \in Queries, f \in PlacedFrames :
       /\ queries[q].st = "pending"
       /\ f.eventType = "NEW_MESSAGE"
       /\ FirstPlace(f) = 1
       /\ ~Has(pendingRequests, ToStr(f.tempIds[1]))
       /\ \E i \in 2..4 :
            /\ Truthy(f.tempIds[i])
            /\ Owner(pendingRequests, ToStr(f.tempIds[i])) = q
       /\ handleMessage(pendingRequests, queries, f).q[q].st = "pending"

\* C27: in every reachable state, a frame none of whose four places holds a
\* non-empty value has no token, and handling it changes neither the table
\* nor any promise, one pending query or several; resolvePending called
\* without a token changes nothing either.
C27_NoTokenNoEffect ==
  \A f \in WideFrames :
    FirstPlace(f) = 0 =>
      /\ ExtractTempId(f) = NoRaw
      /\ LeavesAll(handleMessage(pendingRequests, queries, f))
      /\ \A tempId \in {NoRaw, StrRaw(<<>>)} :
           LET r == ResolvePending(pendingRequests, queries, tempId, Msg(f))
           IN  r.p = pendingRequests /\ r.q = queries /\ r.who = 0

\* C27 witness: exactly one query is pending, it owns the only entry of the
\* table, and a NEW_MESSAGE frame with TEXT content and no token leaves it
\* pending.
C27_Witness ==
  /\ Delivering
  /\ Len(pendingRequests) = 1
  /\ Cardinality({q \in Queries : queries[q].st = "pending"}) = 1
  /\ queries[pendingRequests[1].q].st = "pending"
  /\ \E f \in Frames :
       /\ f.eventType = "NEW_MESSAGE"
       /\ f.content = {"TEXT"}
       /\ FirstPlace(f) = 0
       /\ handleMessage(pendingRequests, queries, f).q = queries

\* C28: in every reachable state, when a NEW_MESSAGE frame that is not
\* loading-only resolves the pending owner of its token's entry, the response
\* is the frame itself if the frame carries a conversationId, if no
\* NEW_CHAT_CREATED was stored in the entry, or if the stored one has no
\* conversationId.
C28_MergeOnlyFillsGap ==
  \A f \in WideFrames :
    LET tempId == ExtractTempId(f)
        key    == FrameKey(f)
        q      == Owner(pendingRequests, key)
        r      == handleMessage(pendingRequests, queries, f)
    IN  ( /\ f.eventType = "NEW_MESSAGE"
          /\ Matches(pendingRequests, tempId)
          /\ NotLoadingOnly(f)
          /\ queries[q].st = "pending" ) =>
        LET stored == Get(pendingRequests, key).chatCreated
        IN  /\ r.q[q].st = "resolved"
            /\ f.conversationId # "null" => r.q[q].res = Msg(f)
            /\ stored = NoMsg => r.q[q].res = Msg(f)
            /\ (stored # NoMsg /\ stored.conversationId = "null") =>
                 r.q[q].res = Msg(f)

\* C28 witness: the entry of a pending query holds a NEW_CHAT_CREATED with
\* conversationId c1, and a NEW_MESSAGE frame with TEXT content and
\* conversationId c2 resolves the query with c2.
C28_Witness ==
  /\ Delivering
  /\ \E q \in Queries, f \in Frames :
       /\ queries[q].st = "pending"
       /\ Owner(pendingRequests, FrameKey(f)) = q
       /\ Get(pendingRequests, FrameKey(f)).chatCreated.conversationId = "c1"
       /\ f.eventType = "NEW_MESSAGE"
       /\ f.content = {"TEXT"}
       /\ f.conversationId = "c2"
       /\ handleMessage(pendingRequests, queries, f).q[q].res =
            [eventType |-> "NEW_MESSAGE", conversationId |-> "c2"]

C30_OtherEventResolvesAtOnce ==
  \A f \in WideFrames :
    ( /\ f.eventType \notin {"NEW_CHAT_CREATED", "NEW_MESSAGE"}
      /\ Matches(pendingRequests, ExtractTempId(f)) ) =>
    LET r == handleMessage(pendingRequests, queries, f)
        q == Owner(pendingRequests, FrameKey(f))
    IN  /\ ResolvesOwner(r, f)
        /\ queries[q].st = "pending" => r.q[q].res = Msg(f)

\* C30 witness: the entry of a pending query holds a NEW_CHAT_CREATED with
\* conversationId c1, and a loading-only frame of another event type without
\* conversationId resolves the query with the frame as it is.
C30_Witness ==
  /\ Delivering
  /\ \E q \in Queries, f \in Frames :
       /\ queries[q].st = "pending"
       /\ Owner(pendingRequests, FrameKey(f)) = q
       /\ Get(pendingRequests, FrameKey(f)).chatCreated.conversationId = "c1"
       /\ f.eventType = "ASSISTANT_REPLY"
       /\ f.content = {"LOADER_TEXT"} /\ ~f.leadingQuestion
       /\ f.conversationId = "null"
       /\ handleMessage(pendingRequests, queries, f).q[q].res =
            [eventType |-> "ASSISTANT_REPLY", conversationId |-> "null"]

-----------------------------------------------------------------------------
(* C31 .. C36 *)

\* The setInterval timers of startHeartbeat that are running.
HeartbeatTimers == (IF heartbeatInterval THEN 1 ELSE 0) + leakedIntervals

\* C31 as stated: at most one heartbeat timer runs at any time, and none
\* runs while the client is not connected.  startHeartbeat overwrites the
\* handle of a running timer, which nothing can stop afterwards.
C31_OneHeartbeatTimer ==
  /\ HeartbeatTimers <= 1
  /\ ~isConnected => HeartbeatTimers = 0

\* C32 as stated, with the closing handshake of the referenced socket
\* allowed for: isConnected holds only while this.ws references a socket
\* that has opened and not yet emitted 'close', and an 'open' or 'close' of
\* a socket that this.ws no longer references changes neither isConnected,
\* nor the heartbeat, nor the reconnect schedule.  The handlers of a replaced
\* socket stay registered and act on the client as those of the current one.
C32_StaleSocketEventsIgnored ==
  /\ [](isConnected => ws \in {"OPEN", "CLOSING"})
  /\ [][(OrphanOpen \/ OrphanClose) =>
          UNCHANGED <<isConnected, heartbeatInterval, leakedIntervals,
                      reconnectAttempts, reconnectTimers>>]_vars

\* The entry under key is there and the current time is not later than its
\* expiry.
Fresh(key) == store[key].has /\ now <= store[key].expiresAt

\* C36: in every reachable state of the store and for every key, get
\* returns the stored data and changes nothing when the entry is there and
\* not expired, and otherwise returns null and leaves no entry under the key,
\* the other keys untouched; has returns whether get returns a value; and
\* set puts the data under the key with the expiry of the current time plus
\* the TTL, whatever was there.
C36_NoExpiredData ==
  \A key \in Keys :
    LET g == MemoryStore_get(store, now, key)
    IN  /\ Fresh(key) => g.val = store[key].data /\ g.store = store
        /\ ~Fresh(key) =>
             /\ g.val = Null
             /\ ~g.store[key].has
             /\ \A k \in Keys \ {key} : g.store[k] = store[k]
        /\ MemoryStore_has(store, now, key).val = (g.val # Null)
        /\ \A data \in StoredData :
             MemoryStore_set(store, now, ttl, key, data)[key] =
               Entry(data, now + ttl)
        /\ store[key].has => store[key].expiresAt <= now + ttl

\* C36 witness: an entry has outlived its expiry and is still in the Map,
\* next to one that was set again and is fresh.
C36_Witness ==
  \E k1, k2 \in Keys :
    /\ store[k1].has /\ now > store[k1].expiresAt
    /\ Fresh(k2) /\ store[k2].expiresAt = now + ttl /\ now > ttl

\* The session stored for the user; NewSession when there is none.
StoredSession ==
  IF store[User].has THEN heap[store[User].data] ELSE NewSession

\* C33: in every state the orchestrator reaches, every session object with a
\* carousel has a non-empty item list, one of those handed to initCarousel,
\* and an index within 0 .. items.length - 1; nextItem moves the index up by
\* one and leaves it at the last item, prevItem moves it down by one and
\* leaves it at the first, neither changes the item list, and getCurrentItem
\* returns the item at the index; initCarousel starts at index 0 with the
\* list it is given.
C33_CarouselSaturates ==
  \A i \in DOMAIN heap :
    LET session == heap[i]
        items   == session.carousel.items
        index   == session.carousel.index
        last    == Len(items) - 1
    IN  /\ session.carousel.on =>
             /\ items \in ItemLists
             /\ 0 <= index /\ index <= last
             /\ nextItem(session).carousel.index =
                  IF index = last THEN index ELSE index + 1
             /\ prevItem(session).carousel.index =
                  IF index = 0 THEN index ELSE index - 1
             /\ nextItem(session).carousel.items = items
             /\ prevItem(session).carousel.items = items
             /\ getCurrentItem(session).found
             /\ getCurrentItem(session).item = items[index + 1]
        /\ \A list \in ItemLists :
             initCarousel(session, list).carousel =
               [on |-> TRUE, items |-> list, index |-> 0]

\* C33 witness: the stored session shows the last of several items, reached
\* by nextItem, and the call that just ended left the carousel as it was.
C33_Witness ==
  /\ StoredSession.carousel.on
  /\ Len(StoredSession.carousel.items) = MaxItems
  /\ StoredSession.carousel.index = MaxItems - 1
  /\ calls # NoCalls
  /\ calls[1].pc = "done"
  /\ "carousel" \notin calls[1].did

\* No processMessage call is under way.
Quiet == \A c \in DOMAIN calls : calls[c].pc # "running"

\* C34 as stated: whenever no message is being handled, a user last asked
\* for travel dates has the step collect_details stored, and a user last
\* asked to confirm the item has the step confirm_item stored.  Booking
\* started from a 'book' guardrail asks for the dates and stores
\* confirm_item.
C34_StepMatchesPrompt ==
  Quiet =>
    /\ prompted = "dates" =>
         StoredSession.booking.step = "collect_details"
    /\ prompted = "confirm_item" =>
         StoredSession.booking.step = "confirm_item"

\* C35 as stated: once the calls for the user have all finished, every field
\* that one call changed and no other call changed has, in the stored
\* session, the value that call gave it.  Each call writes back the whole
\* session it loaded, so the call that finishes last undoes what the other
\* changed in between.
C35_NoLostUpdate ==
  Quiet =>
    \A c \in DOMAIN calls : \A f \in calls[c].did :
      (\A d \in DOMAIN calls \ {c} : f \notin calls[d].did) =>
        StoredSession[f] = calls[c].out[f]
====
